---- MODULE Spec2Model ----
(***************************************************************************)
(* ClaimIT: the claim lifecycle of the lost-and-found backend.             *)
(*                                                                         *)
(* The tables of database/schema.sql (users, items, claims,                *)
(* notifications) are the shared state.  Every HTTP handler of the claim,  *)
(* item and admin item routes is a sequence of awaited data-store calls;   *)
(* each call is one atomic step, and the steps of concurrently served      *)
(* requests interleave freely.  Every data-store call either succeeds or   *)
(* returns an error (supabase-js returns {data, error}, it does not        *)
(* throw).  Spec is the claim lifecycle from empty tables; SpecItems is    *)
(* every route that follows a submission.                                  *)
(***************************************************************************)
EXTENDS Integers, Sequences, FiniteSets, Bags, TLC

\* ------------------------------------------------------------------ bounds
\* Total number of requests the server accepts in one behaviour.
MaxRequests == 3
\* Total number of data-store calls that fail in one behaviour.
MaxFailures == 1

\* ------------------------------------------------------- program constants
\* Points awarded to the claimant of an approved claim.
ClaimAwardPoints == 20
\* Points awarded to the reporter of a found item.
FoundItemPoints == 10

\* ------------------------------------------------------------ the universe
Null == "null"
\* A NULL timestamp.
NullTime == 0

Users == {"a1", "a2", "p", "x", "y"}
\* The callers that are tried for each route.
Claimants == {"p", "x"}
Reviewers == {"a1", "a2"}
Overriders == {"a1"}
Roles == {"student", "staff", "teacher", "admin"}
ItemIds == {"i1"}
\* An id that no item and no claim ever has.
MissingItem == "i0"
MissingClaim == 0
\* The request bodies of PUT /claims/:id/status that are tried.
DecideBodies == {[status |-> "approved", adminNotes |-> "id matched"],
                 [status |-> "rejected", adminNotes |-> "no proof"]}
\* The id of the item that POST /items creates.
NewItemIds == {"i2"}
\* The callers that are tried for the item routes and for the claim reads: the
\* poster of the first item, another student and an admin.
ItemCallers == {"p", "x", "a1"}
\* The status fields of the PUT /items/:id bodies that are tried (every body
\* has a title as well); Null is a body without status.
UpdateStatuses == {Null, "claimed", "archived"}
\* The status filters of GET /claims that are tried; Null is no filter.
StatusFilters == {Null, "pending"}
Reqs == {1, 2}

VARIABLES
  role,           \* users.role
  points,         \* users.points
  items,          \* items table: id -> [status, poster_id, claimed_by]
  claims,         \* claims table: sequence of rows, the row's id is its index
  notifications,  \* notifications table: a bag of rows
  clock,          \* wall clock read by new Date(); it ticks between two readings
  req,            \* per in-flight request: position, locals, last response
  last,           \* the request answered by the latest step, with its response
  effects,        \* history: per claim, item updates and point awards made for it
  nreq,           \* history: number of requests accepted so far
  nfail           \* history: number of data-store calls that failed so far

vars == <<role, points, items, claims, notifications, clock, req, last, effects, nreq, nfail>>

\* ------------------------------------------------------------ data store
ItemStatuses == {"active", "claimed", "archived"}
ClaimStatuses == {"pending", "approved", "rejected"}

\* claims.status DEFAULT 'pending'; the nullable review columns start NULL.
NewClaimRow(itemId, claimantId) ==
  [item_id |-> itemId, claimant_id |-> claimantId, status |-> "pending",
   admin_notes |-> Null, reviewed_by |-> Null, reviewed_at |-> NullTime]

\* The claims table without its uniqueness constraint.
ClaimsUniqueOk_Unconstrained(itemId, claimantId) == TRUE

\* UNIQUE(item_id, claimant_id) on claims: may a row for this pair be inserted?
ClaimsUniqueOk(itemId, claimantId) ==
  \A c \in 1..Len(claims) :
     ~(claims[c].item_id = itemId /\ claims[c].claimant_id = claimantId)

\* item_id REFERENCES items(id)
ClaimsForeignKeyOk(itemId) == itemId \in DOMAIN items

\* notifications row; is_read DEFAULT FALSE.
Notification(userId, title, type, itemId, claimId) ==
  [user_id |-> userId, title |-> title, type |-> type,
   data |-> [itemId |-> itemId, claimId |-> claimId], is_read |-> FALSE]

\* middleware/auth.js
RequireAdmin(u) == role[u] = "admin"
RequireStudentOrStaff(u) == role[u] \in {"student", "staff", "teacher", "admin"}
\* authenticateToken: req.user.points is the caller's points when the
\* request is authenticated.
AuthenticatedPoints(u) == points[u]

\* ------------------------------------------------------------- responses
Response(status, error) ==
  [status |-> status, error |-> error, existingClaimStatus |-> Null]

\* The error kind of the specification that a response stands for.
ErrorKind(resp) ==
  CASE resp.status = 0 -> "None"
    [] resp.status \in {200, 201} -> "Success"
    [] resp.status = 404 -> "NotFound"
    [] resp.status = 403 -> "PermissionDenied"
    [] resp.status = 500 -> "InternalError"
    [] resp.error = "Item is not available for claiming" -> "InvalidState"
    [] resp.error = "You cannot claim your own item" -> "SelfClaim"
    [] resp.error = "You already have a claim for this item" -> "DuplicateClaim"
    [] resp.error = "Claim has already been reviewed" -> "AlreadyReviewed"
    [] OTHER -> "ValidationError"

\* ---------------------------------------------------------- request slots
NoResponse == Response(0, "")
NoItem == [id |-> Null, status |-> Null, poster_id |-> Null]
NoClaim == [id |-> MissingClaim, item_id |-> Null, claimant_id |-> Null,
            status |-> Null, item |-> NoItem]
ZeroPoints == [u \in Users |-> 0]

\* req.user (user, userPoints), req.body / req.params / req.query (itemId,
\* targetId, claimId, status, adminNotes, dateFound), the handler's local variables
\* (item, claim, updates.reviewed_at, newClaim, admins) and the response with
\* the claims it carries (rows).
\* The other fields are history of the request: the users' points when it
\* began (prePoints), the notification rows it inserted (sent), the positions
\* at which a data-store call of it failed (failed, "idle" being its first
\* call), its number in arrival order (seq) and whether no other request was
\* in flight when it arrived (solo).
IdleReq ==
  [op |-> "none", pc |-> "idle", user |-> Null, userPoints |-> 0, itemId |-> Null,
   targetId |-> Null,
   claimId |-> MissingClaim, status |-> Null, adminNotes |-> Null,
   dateFound |-> FALSE, rows |-> {},
   item |-> NoItem, claim |-> NoClaim, reviewedAt |-> NullTime,
   newClaim |-> MissingClaim, admins |-> {},
   resp |-> NoResponse, prePoints |-> ZeroPoints, sent |-> EmptyBag,
   failed |-> {}, seq |-> 0, solo |-> FALSE]

Free(r) == req[r].pc = "idle"

\* A new request takes the first free slot.
CanStart(r) ==
  /\ Free(r)
  /\ \A q \in Reqs : q < r => ~Free(q)
  /\ nreq < MaxRequests

\* The request record of a handler that was just entered; authenticateToken
\* has loaded the caller's users row into req.user.
Begin(op, u) ==
  [IdleReq EXCEPT !.op = op, !.user = u, !.userPoints = AuthenticatedPoints(u),
                  !.prePoints = points,
                  !.seq = nreq + 1, !.solo = \A q \in Reqs : Free(q)]

Finish(rq, resp) == [rq EXCEPT !.pc = "done", !.resp = resp]

\* The outcome ok of one data-store call.
StoreCall(ok) ==
  /\ ok \/ nfail < MaxFailures
  /\ nfail' = IF ok THEN nfail ELSE nfail + 1

\* A step of request r, one data-store call with outcome ok, leaves it as rq:
\* a finished request sends its response (last is the request that the step
\* answered, if it answered one) and frees its slot.
Commit(r, rq, ok) ==
  /\ StoreCall(ok)
  /\ LET rq2 == [rq EXCEPT !.failed = IF ok THEN @ ELSE @ \cup {req[r].pc}]
     IN IF rq2.pc = "done"
          THEN /\ req' = [req EXCEPT ![r] = IdleReq]
               /\ last' = rq2
          ELSE /\ req' = [req EXCEPT ![r] = rq2]
               /\ last' = IdleReq

\* .from('notifications').insert(rows): the rows that reach the table.
Inserted(rows, ok) == IF ok THEN SetToBag(rows) ELSE EmptyBag

\* A handler that answers 500 when a notification insert fails.
IgnoreResult_Surfaced(rq, ok) ==
  IF ok THEN rq ELSE Finish(rq, Response(500, "Internal server error"))

\* await supabase.from('notifications').insert(...) with the returned
\* { data, error } dropped: the handler goes on as rq whatever the outcome.
IgnoreResult(rq, ok) == rq

Init ==
  /\ role = [a1 |-> "admin", a2 |-> "admin", p |-> "student", x |-> "student",
             y |-> "student"]
  /\ points = [u \in Users |-> 0]
  /\ items = [i \in ItemIds |-> [status |-> "active", poster_id |-> "p", claimed_by |-> Null]]
  /\ claims = <<>>
  /\ notifications = EmptyBag
  /\ clock = 1
  /\ req = [r \in Reqs |-> IdleReq]
  /\ last = IdleReq
  /\ effects = <<>>
  /\ nreq = 0
  /\ nfail = 0

\* ------------------------------------------------- POST /claims (submit)
\* supabase .single(): exactly one matching row is the data; no row or
\* several rows is the error PGRST116; a failed call is some other error.
Single(rows, ok) ==
  IF ~ok THEN [data |-> MissingClaim, error |-> "OTHER"]
  ELSE IF Cardinality(rows) = 1
       THEN [data |-> CHOOSE c \in rows : TRUE, error |-> Null]
       ELSE [data |-> MissingClaim, error |-> "PGRST116"]

\* .from('claims').eq('item_id', itemId).eq('claimant_id', userId)
ClaimsOf(itemId, userId) ==
  {c \in 1..Len(claims) :
     claims[c].item_id = itemId /\ claims[c].claimant_id = userId}

\* The item checks with the status check left out.
ItemCheck_NoStatusCheck(i, u, ok) ==
  IF ~ok \/ i \notin DOMAIN items
    THEN Response(404, "Item not found")
  ELSE IF items[i].poster_id = u
    THEN Response(400, "You cannot claim your own item")
  ELSE NoResponse

\* The item checks with the self-claim check left out.
ItemCheck_NoSelfCheck(i, u, ok) ==
  IF ~ok \/ i \notin DOMAIN items
    THEN Response(404, "Item not found")
  ELSE IF items[i].status # "active"
    THEN Response(400, "Item is not available for claiming")
  ELSE NoResponse

\* The checks on the item that was looked up: the error response of the
\* first check that fails, or no response when the item is claimable.
ItemCheck(i, u, ok) ==
  IF ~ok \/ i \notin DOMAIN items
    THEN Response(404, "Item not found")
  ELSE IF items[i].status # "active"
    THEN Response(400, "Item is not available for claiming")
  ELSE IF items[i].poster_id = u
    THEN Response(400, "You cannot claim your own item")
  ELSE NoResponse

\* A duplicate check that refuses after a rejected claim too.
IsDuplicate_AnyStatus(existingStatus) == TRUE

\* A duplicate check that only looks for pending claims.
IsDuplicate_PendingOnly(existingStatus) == existingStatus = "pending"

\* existingClaim.status !== 'rejected'
IsDuplicate(existingStatus) == existingStatus # "rejected"

\* A broadcast that reaches one admin only.
AdminNotifications_FirstOnly(admins, itemId, claimId) ==
  {Notification(CHOOSE a \in admins : TRUE, "New Claim to Review",
                "claim_submitted", itemId, claimId)}

\* admins.map(admin => ({ user_id: admin.id, ... }))
AdminNotifications(admins, itemId, claimId) ==
  {Notification(a, "New Claim to Review", "claim_submitted", itemId, claimId) :
     a \in admins}

\* Request start and the item lookup: existence, status and self-claim checks.
SubmitFetchItem(r, u, i, ok) ==
  /\ CanStart(r)
  /\ RequireStudentOrStaff(u)
  /\ nreq' = nreq + 1
  /\ LET rq == [Begin("submit", u) EXCEPT !.itemId = i]
         err == ItemCheck(i, u, ok)
     IN Commit(r, IF err # NoResponse
                    THEN Finish(rq, err)
                    ELSE [rq EXCEPT !.pc = "s_existing",
                                    !.item = [id |-> i, status |-> items[i].status,
                                              poster_id |-> items[i].poster_id]],
               ok)
  /\ UNCHANGED <<role, points, items, claims, notifications, clock, effects>>

\* The existing-claim lookup and the duplicate check.
SubmitCheckExisting(r, ok) ==
  /\ req[r].pc = "s_existing"
  /\ LET rq == req[r]
         res == Single(ClaimsOf(rq.itemId, rq.user), ok)
     IN Commit(r,
          IF res.error # Null /\ res.error # "PGRST116"
            THEN Finish(rq, Response(500, "Failed to check existing claims"))
          ELSE IF res.data # MissingClaim /\ IsDuplicate(claims[res.data].status)
            THEN Finish(rq, [Response(400, "You already have a claim for this item")
                               EXCEPT !.existingClaimStatus = claims[res.data].status])
          ELSE [rq EXCEPT !.pc = "s_insert"],
          ok)
  /\ UNCHANGED <<role, points, items, claims, notifications, clock, effects, nreq>>

\* The insert of the pending claim row.
SubmitInsert(r, ok) ==
  /\ req[r].pc = "s_insert"
  /\ LET rq == req[r]
     IN IF ok /\ ClaimsUniqueOk(rq.itemId, rq.user) /\ ClaimsForeignKeyOk(rq.itemId)
        THEN /\ claims' = Append(claims, NewClaimRow(rq.itemId, rq.user))
             /\ effects' = Append(effects, [itemUpdates |-> 0, awards |-> 0])
             /\ Commit(r, [rq EXCEPT !.pc = "s_notify_poster",
                                     !.newClaim = Len(claims) + 1], ok)
        ELSE /\ Commit(r, Finish(rq, Response(500, "Failed to create claim")), ok)
             /\ UNCHANGED <<claims, effects>>
  /\ UNCHANGED <<role, points, items, notifications, clock, nreq>>

\* The notification for the item's poster; its result is not looked at.
SubmitNotifyPoster(r, ok) ==
  /\ req[r].pc = "s_notify_poster"
  /\ LET rq == req[r]
         rows == Inserted({Notification(rq.item.poster_id, "New Claim on Your Item",
                                        "item_claimed", rq.itemId, rq.newClaim)}, ok)
     IN /\ notifications' = notifications (+) rows
        /\ Commit(r, IgnoreResult([rq EXCEPT !.pc = "s_admins", !.sent = @ (+) rows], ok),
                  ok)
  /\ UNCHANGED <<role, points, items, claims, clock, effects, nreq>>

\* .from('users').select('id').eq('role', 'admin'); without admins the
\* request responds at once.
SubmitFetchAdmins(r, ok) ==
  /\ req[r].pc = "s_admins"
  /\ LET rq == req[r]
         admins == IF ok THEN {u \in Users : role[u] = "admin"} ELSE {}
     IN Commit(r, IF admins # {}
                    THEN [rq EXCEPT !.pc = "s_notify_admins", !.admins = admins]
                    ELSE Finish(rq, Response(201, "Claim submitted successfully")),
               ok)
  /\ UNCHANGED <<role, points, items, claims, notifications, clock, effects, nreq>>

\* One bulk insert of a notification per admin, then the 201 response.
SubmitNotifyAdmins(r, ok) ==
  /\ req[r].pc = "s_notify_admins"
  /\ LET rq == req[r]
         rows == Inserted(AdminNotifications(rq.admins, rq.itemId, rq.newClaim), ok)
     IN /\ notifications' = notifications (+) rows
        /\ Commit(r, IgnoreResult(Finish([rq EXCEPT !.sent = @ (+) rows],
                                         Response(201, "Claim submitted successfully")),
                                  ok), ok)
  /\ UNCHANGED <<role, points, items, claims, clock, effects, nreq>>

\* ------------------------------------- PUT /claims/:id/status (decide)
\* A guard that lets every claim through.
AlreadyReviewed_Never(claimRow) == FALSE

\* The terminal-state guard on the claim row that was read.
AlreadyReviewed(claimRow) == claimRow.status # "pending"

\* The rows the claim update writes: .update(updates).eq('id', id)
ClaimUpdateMatches(c, id) == c = id

\* updates = { status, reviewed_by, reviewed_at, admin_notes }
ClaimUpdates(row, status, reviewer, now, adminNotes) ==
  [row EXCEPT !.status = status, !.reviewed_by = reviewer,
              !.reviewed_at = now, !.admin_notes = adminNotes]

\* An item update that forgets claimed_by.
ItemClaimedUpdate_StatusOnly(itemRow, claim) ==
  [itemRow EXCEPT !.status = "claimed"]

\* .update({ status: 'claimed', claimed_by: claim.claimant_id })
ItemClaimedUpdate(itemRow, claim) ==
  [itemRow EXCEPT !.status = "claimed", !.claimed_by = claim.claimant_id]

\* The stored procedure increment_user_points(user_id, points_to_add).
IncrementUserPoints(pts, userId, pointsToAdd) ==
  [pts EXCEPT ![userId] = @ + pointsToAdd]

\* An award that is made again until it succeeds.
AwardPoints_Retried(pts, userId, ok) ==
  IncrementUserPoints(pts, userId, ClaimAwardPoints)

\* await supabase.rpc('increment_user_points', { user_id, points_to_add: 20 }):
\* the users' points after the call; a failed call has added nothing.
AwardPoints(pts, userId, ok) ==
  IF ok THEN IncrementUserPoints(pts, userId, ClaimAwardPoints) ELSE pts

\* A poster notification sent for every decision.
NotifiesPoster_Always(status) == TRUE

\* if (status === 'approved'): the item's poster is notified as well.
NotifiesPoster(status) == status = "approved"

\* Request start and the claim lookup (with its joined item); a claim that
\* passes the guard gets its updates built, reviewed_at being the time now.
DecideFetchClaim(r, u, c, body, ok) ==
  /\ CanStart(r)
  /\ RequireAdmin(u)
  /\ nreq' = nreq + 1
  /\ clock' = IF ok /\ c \in 1..Len(claims) /\ ~AlreadyReviewed(claims[c])
                THEN clock + 1 ELSE clock
  /\ LET rq == [Begin("decide", u) EXCEPT !.claimId = c, !.status = body.status,
                                          !.adminNotes = body.adminNotes]
     IN Commit(r,
          IF ~ok \/ c \notin 1..Len(claims)
            THEN Finish(rq, Response(404, "Claim not found"))
          ELSE IF AlreadyReviewed(claims[c])
            THEN Finish(rq, Response(400, "Claim has already been reviewed"))
          ELSE [rq EXCEPT !.pc = "d_update",
                  !.reviewedAt = clock,
                  !.claim = [id |-> c, item_id |-> claims[c].item_id,
                             claimant_id |-> claims[c].claimant_id,
                             status |-> claims[c].status,
                             item |-> [id |-> claims[c].item_id,
                                       status |-> Null,
                                       poster_id |-> items[claims[c].item_id].poster_id]]],
          ok)
  /\ UNCHANGED <<role, points, items, claims, notifications, effects>>

\* The write of the decision to the claim row.
DecideUpdateClaim(r, ok) ==
  /\ req[r].pc = "d_update"
  /\ LET rq == req[r]
     IN IF ok
        THEN /\ claims' = [c \in 1..Len(claims) |->
                  IF ClaimUpdateMatches(c, rq.claimId)
                    THEN ClaimUpdates(claims[c], rq.status, rq.user, rq.reviewedAt,
                                      rq.adminNotes)
                    ELSE claims[c]]
             /\ Commit(r, [rq EXCEPT !.pc =
                  IF rq.status = "approved" THEN "d_item" ELSE "d_notify_claimant"], ok)
        ELSE /\ Commit(r, Finish(rq, Response(500, "Failed to update claim status")), ok)
             /\ UNCHANGED claims
  /\ UNCHANGED <<role, points, items, notifications, clock, effects, nreq>>

\* Approved: the item becomes claimed by the claimant; the result is not looked at.
DecideUpdateItem(r, ok) ==
  /\ req[r].pc = "d_item"
  /\ LET rq == req[r]
     IN IF ok /\ rq.claim.item_id \in DOMAIN items
        THEN /\ items' = [items EXCEPT ![rq.claim.item_id] = ItemClaimedUpdate(@, rq.claim)]
             /\ effects' = [effects EXCEPT ![rq.claimId].itemUpdates = @ + 1]
        ELSE UNCHANGED <<items, effects>>
  /\ Commit(r, [req[r] EXCEPT !.pc = "d_points"], ok)
  /\ UNCHANGED <<role, points, claims, notifications, clock, nreq>>

\* Approved: the point award; the result is not looked at.
DecideAwardPoints(r, ok) ==
  /\ req[r].pc = "d_points"
  /\ LET rq == req[r]
     IN /\ points' = AwardPoints(points, rq.claim.claimant_id, ok)
        /\ effects' = IF ok THEN [effects EXCEPT ![rq.claimId].awards = @ + 1]
                            ELSE effects
  /\ Commit(r, [req[r] EXCEPT !.pc = "d_notify_claimant"], ok)
  /\ UNCHANGED <<role, items, claims, notifications, clock, nreq>>

\* The notification for the claimant; without a poster notification the
\* request responds after it.
DecideNotifyClaimant(r, ok) ==
  /\ req[r].pc = "d_notify_claimant"
  /\ LET rq == req[r]
         title == IF rq.status = "approved" THEN "Claim Approved" ELSE "Claim Rejected"
         rows == Inserted({Notification(rq.claim.claimant_id, title, "claim_update",
                                        rq.claim.item_id, rq.claimId)}, ok)
         rq2 == [rq EXCEPT !.sent = @ (+) rows]
     IN /\ notifications' = notifications (+) rows
        /\ Commit(r, IgnoreResult(
                       IF NotifiesPoster(rq.status)
                         THEN [rq2 EXCEPT !.pc = "d_notify_poster"]
                         ELSE Finish(rq2, Response(200, "Claim rejected successfully")),
                       ok), ok)
  /\ UNCHANGED <<role, points, items, claims, clock, effects, nreq>>

\* Approved: the notification for the item's poster, then the response.
DecideNotifyPoster(r, ok) ==
  /\ req[r].pc = "d_notify_poster"
  /\ LET rq == req[r]
         rows == Inserted({Notification(rq.claim.item.poster_id, "Item Claimed",
                                        "item_claimed", rq.claim.item_id, rq.claimId)}, ok)
     IN /\ notifications' = notifications (+) rows
        /\ Commit(r, IgnoreResult(Finish([rq EXCEPT !.sent = @ (+) rows],
                                         Response(200, "Claim approved successfully")),
                                  ok), ok)
  /\ UNCHANGED <<role, points, items, claims, clock, effects, nreq>>

\* ------------------------------- PUT /admin/items/:id/status (override)
\* Request start and the status update; an update matching no row makes
\* .single() return an error.
AdminUpdateItemStatus(r, u, i, status, ok) ==
  /\ CanStart(r)
  /\ RequireAdmin(u)
  /\ nreq' = nreq + 1
  /\ LET rq == [Begin("item_status", u) EXCEPT !.itemId = i, !.status = status]
     IN IF ok /\ i \in DOMAIN items
        THEN /\ items' = [items EXCEPT ![i].status = status]
             /\ Commit(r, IF status = "archived"
                            THEN [rq EXCEPT !.pc = "a_notify",
                                            !.item = [id |-> i, status |-> status,
                                                      poster_id |-> items[i].poster_id]]
                            ELSE Finish(rq, Response(200, "Item status updated successfully")),
                       ok)
        ELSE /\ Commit(r, Finish(rq, Response(500, "Failed to update item status")), ok)
             /\ UNCHANGED items
  /\ UNCHANGED <<role, points, claims, notifications, clock, effects>>

\* Archived: the notification for the item's poster, then the response.
AdminNotifyArchived(r, ok) ==
  /\ req[r].pc = "a_notify"
  /\ LET rq == req[r]
         rows == Inserted({Notification(rq.item.poster_id, "Item Archived",
                                        "item_archived", rq.itemId, MissingClaim)}, ok)
     IN /\ notifications' = notifications (+) rows
        /\ Commit(r, IgnoreResult(Finish([rq EXCEPT !.sent = @ (+) rows],
                                         Response(200, "Item status updated successfully")),
                                  ok), ok)
  /\ UNCHANGED <<role, points, items, claims, clock, effects, nreq>>

\* -------------------------------------------- POST /items (create item)
\* items row as inserted: status DEFAULT 'active', claimed_by NULL.
NewItemRow(posterId) ==
  [status |-> "active", poster_id |-> posterId, claimed_by |-> Null]

\* .update({ points: req.user.points + 10 }).eq('id', req.user.id)
FoundItemAward(pts, userId, userPoints, ok) ==
  IF ok THEN [pts EXCEPT ![userId] = userPoints + FoundItemPoints] ELSE pts

\* Request start and the insert of the item row.
CreateItemInsert(r, u, i, dateFound, ok) ==
  /\ CanStart(r)
  /\ RequireStudentOrStaff(u)
  /\ i \notin DOMAIN items
  /\ nreq' = nreq + 1
  /\ LET rq == [Begin("create_item", u) EXCEPT !.itemId = i, !.dateFound = dateFound]
     IN IF ok
        THEN /\ items' = [j \in DOMAIN items \cup {i} |->
                           IF j = i THEN NewItemRow(u) ELSE items[j]]
             /\ Commit(r, [rq EXCEPT !.pc = "c_qr"], ok)
        ELSE /\ Commit(r, Finish(rq, Response(500, "Failed to create item")), ok)
             /\ UNCHANGED items
  /\ UNCHANGED <<role, points, claims, notifications, clock, effects>>

\* The update of qr_code with the new id; its result is not looked at.
\* Without a found date the request responds after it.
CreateItemUpdateQr(r, ok) ==
  /\ req[r].pc = "c_qr"
  /\ LET rq == req[r]
     IN Commit(r, IF rq.dateFound
                    THEN [rq EXCEPT !.pc = "c_points"]
                    ELSE Finish(rq, Response(201, "Item created successfully")),
               ok)
  /\ UNCHANGED <<role, points, items, claims, notifications, clock, effects, nreq>>

\* Found item: the reporter's points are set to the points read at
\* authentication plus 10; the result is not looked at.
CreateItemAwardPoints(r, ok) ==
  /\ req[r].pc = "c_points"
  /\ LET rq == req[r]
     IN /\ points' = FoundItemAward(points, rq.user, rq.userPoints, ok)
        /\ Commit(r, Finish(rq, Response(201, "Item created successfully")), ok)
  /\ UNCHANGED <<role, items, claims, notifications, clock, effects, nreq>>

\* --------------------------------------------- PUT /items/:id (update item)
\* currentItem.poster_id !== req.user.id && req.user.role !== 'admin'
ItemPermissionDenied(posterId, u) == posterId # u /\ role[u] # "admin"

\* An update that takes the status from any caller.
UpdatedStatus_AnyCaller(itemRow, u, status) ==
  IF status # Null THEN status ELSE itemRow.status

\* The status that the update writes to the row: req.body.status for an
\* admin, the row's own status otherwise.
UpdatedStatus(itemRow, u, status) ==
  IF status # Null /\ role[u] = "admin" THEN status ELSE itemRow.status

\* Request start and the lookup of the item's poster.
UpdateItemFetch(r, u, i, status, ok) ==
  /\ CanStart(r)
  /\ nreq' = nreq + 1
  /\ LET rq == [Begin("update_item", u) EXCEPT !.itemId = i, !.status = status]
     IN Commit(r,
          IF ~ok \/ i \notin DOMAIN items
            THEN Finish(rq, Response(404, "Item not found"))
          ELSE IF ItemPermissionDenied(items[i].poster_id, u)
            THEN Finish(rq, Response(403, "Permission denied"))
          ELSE [rq EXCEPT !.pc = "u_write",
                          !.item = [id |-> i, status |-> Null,
                                    poster_id |-> items[i].poster_id]],
          ok)
  /\ UNCHANGED <<role, points, items, claims, notifications, clock, effects>>

\* .update(updates).eq('id', id).select().single(): a row that is gone
\* makes .single() return an error.
UpdateItemWrite(r, ok) ==
  /\ req[r].pc = "u_write"
  /\ LET rq == req[r]
     IN IF ok /\ rq.itemId \in DOMAIN items
        THEN /\ items' = [items EXCEPT ![rq.itemId].status =
                                         UpdatedStatus(items[rq.itemId], rq.user, rq.status)]
             /\ Commit(r, Finish(rq, Response(200, "Item updated successfully")), ok)
        ELSE /\ Commit(r, Finish(rq, Response(500, "Failed to update item")), ok)
             /\ UNCHANGED items
  /\ UNCHANGED <<role, points, claims, notifications, clock, effects, nreq>>

\* ------------------------------------------ DELETE /items/:id (delete item)
\* claims.item_id REFERENCES items(id) without ON DELETE: an item that a
\* claim refers to cannot be deleted.
ItemsDeleteOk(i) == \A c \in 1..Len(claims) : claims[c].item_id # i

\* .from('items').delete().eq('id', id)
ItemsDelete(i) == [j \in DOMAIN items \ {i} |-> items[j]]

\* Request start and the lookup of the item's poster.
DeleteItemFetch(r, u, i, ok) ==
  /\ CanStart(r)
  /\ nreq' = nreq + 1
  /\ LET rq == [Begin("delete_item", u) EXCEPT !.itemId = i]
     IN Commit(r,
          IF ~ok \/ i \notin DOMAIN items
            THEN Finish(rq, Response(404, "Item not found"))
          ELSE IF ItemPermissionDenied(items[i].poster_id, u)
            THEN Finish(rq, Response(403, "Permission denied"))
          ELSE [rq EXCEPT !.pc = "x_write",
                          !.item = [id |-> i, status |-> Null,
                                    poster_id |-> items[i].poster_id]],
          ok)
  /\ UNCHANGED <<role, points, items, claims, notifications, clock, effects>>

\* The delete of the row, then the response.
DeleteItemWrite(r, ok) ==
  /\ req[r].pc = "x_write"
  /\ LET rq == req[r]
     IN IF ok /\ ItemsDeleteOk(rq.itemId)
        THEN /\ items' = ItemsDelete(rq.itemId)
             /\ Commit(r, Finish(rq, Response(200, "Item deleted successfully")), ok)
        ELSE /\ Commit(r, Finish(rq, Response(500, "Failed to delete item")), ok)
             /\ UNCHANGED items
  /\ UNCHANGED <<role, points, claims, notifications, clock, effects, nreq>>

\* ----------------------------------- DELETE /admin/items/:id (admin delete)
\* Request start and the lookup of the item's title and poster.
AdminDeleteFetch(r, u, i, ok) ==
  /\ CanStart(r)
  /\ RequireAdmin(u)
  /\ nreq' = nreq + 1
  /\ LET rq == [Begin("admin_delete", u) EXCEPT !.itemId = i]
     IN Commit(r,
          IF ~ok \/ i \notin DOMAIN items
            THEN Finish(rq, Response(404, "Item not found"))
          ELSE [rq EXCEPT !.pc = "ad_write",
                          !.item = [id |-> i, status |-> Null,
                                    poster_id |-> items[i].poster_id]],
          ok)
  /\ UNCHANGED <<role, points, items, claims, notifications, clock, effects>>

\* The delete of the row.
AdminDeleteWrite(r, ok) ==
  /\ req[r].pc = "ad_write"
  /\ LET rq == req[r]
     IN IF ok /\ ItemsDeleteOk(rq.itemId)
        THEN /\ items' = ItemsDelete(rq.itemId)
             /\ Commit(r, [rq EXCEPT !.pc = "ad_notify"], ok)
        ELSE /\ Commit(r, Finish(rq, Response(500, "Failed to delete item")), ok)
             /\ UNCHANGED items
  /\ UNCHANGED <<role, points, claims, notifications, clock, effects, nreq>>

\* The notification for the item's poster, then the response.
AdminDeleteNotify(r, ok) ==
  /\ req[r].pc = "ad_notify"
  /\ LET rq == req[r]
         rows == Inserted({Notification(rq.item.poster_id, "Item Deleted",
                                        "item_deleted", rq.itemId, MissingClaim)}, ok)
     IN /\ notifications' = notifications (+) rows
        /\ Commit(r, IgnoreResult(Finish([rq EXCEPT !.sent = @ (+) rows],
                                         Response(200, "Item deleted successfully")),
                                  ok), ok)
  /\ UNCHANGED <<role, points, items, claims, clock, effects, nreq>>

\* --------------------------------------- GET /claims and GET /claims/:id
\* The claims that the list query of caller u selects: the status filter,
\* and for a caller who is not an admin the filter on claimant_id.
VisibleClaims(u, statusFilter) ==
  {c \in 1..Len(claims) :
     /\ statusFilter # Null => claims[c].status = statusFilter
     /\ role[u] # "admin" => claims[c].claimant_id = u}

\* A permission check that lets the poster of the claimed item through.
ClaimPermissionDenied_PosterAllowed(claimRow, u) ==
  /\ claimRow.claimant_id # u
  /\ role[u] # "admin"
  /\ items[claimRow.item_id].poster_id # u

\* claim.claimant_id !== req.user.id && req.user.role !== 'admin'
ClaimPermissionDenied(claimRow, u) == claimRow.claimant_id # u /\ role[u] # "admin"

\* GET /claims: one query, then the response with its rows.
GetClaims(r, u, statusFilter, ok) ==
  /\ CanStart(r)
  /\ nreq' = nreq + 1
  /\ LET rq == [Begin("get_claims", u) EXCEPT !.status = statusFilter]
     IN Commit(r,
          IF ok THEN Finish([rq EXCEPT !.rows = VisibleClaims(u, statusFilter)],
                            Response(200, ""))
                ELSE Finish(rq, Response(500, "Failed to fetch claims")),
          ok)
  /\ UNCHANGED <<role, points, items, claims, notifications, clock, effects>>

\* GET /claims/:id: the lookup, the permission check, the response.
GetClaim(r, u, c, ok) ==
  /\ CanStart(r)
  /\ nreq' = nreq + 1
  /\ LET rq == [Begin("get_claim", u) EXCEPT !.claimId = c]
     IN Commit(r,
          IF ~ok \/ c \notin 1..Len(claims)
            THEN Finish(rq, Response(404, "Claim not found"))
          ELSE IF ClaimPermissionDenied(claims[c], u)
            THEN Finish(rq, Response(403, "Permission denied"))
          ELSE Finish([rq EXCEPT !.rows = {c}], Response(200, "")),
          ok)
  /\ UNCHANGED <<role, points, items, claims, notifications, clock, effects>>

\* ------------------------------------------------- notification read state
\* The callers of the mark-read routes.
NotificationReaders == {"p", "x", "a1"}

\* An id that no notification row has.
MissingNotification ==
  [user_id |-> Null, title |-> "", type |-> "",
   data |-> [itemId |-> Null, claimId |-> MissingClaim], is_read |-> FALSE]

\* A mark-read filter that forgets the caller.
MarkReadMatches_AnyUser(row, n, u) == row = n

\* .eq('id', id).eq('user_id', req.user.id); n is the row that has the id.
MarkReadMatches(row, n, u) == row = n /\ row.user_id = u

\* .eq('user_id', req.user.id).eq('is_read', false)
MarkAllMatches(row, u) == row.user_id = u /\ row.is_read = FALSE

\* .update({ is_read: true }) on one row.
ReadRow(row) == [row EXCEPT !.is_read = TRUE]

\* The table after one copy of row n, the row with the id, was updated.
MarkRead(table, n, u) ==
  IF BagIn(n, table) /\ MarkReadMatches(n, n, u)
    THEN (table (-) SetToBag({n})) (+) SetToBag({ReadRow(n)})
    ELSE table

\* The table after every row of the caller that is unread was updated.
MarkAllRead(table, u) ==
  LET rows == BagToSet(table)
      hit == {row \in rows : MarkAllMatches(row, u)}
      kept == [row \in rows \ hit |-> table[row]]
      marked == {ReadRow(row) : row \in hit}
      written == [row \in marked |->
                    table[CHOOSE h \in hit : ReadRow(h) = row]]
  IN kept (+) written

\* PUT /notifications/:id/read: one update, answered 200 whether or not a
\* row matched.
MarkNotificationRead(r, u, n, ok) ==
  /\ CanStart(r)
  /\ nreq' = nreq + 1
  /\ notifications' = IF ok THEN MarkRead(notifications, n, u) ELSE notifications
  /\ LET rq == Begin("mark_read", u)
     IN Commit(r,
          IF ok THEN Finish(rq, Response(200, ""))
          ELSE Finish(rq, Response(500, "Failed to mark notification as read")),
          ok)
  /\ UNCHANGED <<role, points, items, claims, clock, effects>>

\* PUT /notifications/read-all: one update.
MarkAllNotificationsRead(r, u, ok) ==
  /\ CanStart(r)
  /\ nreq' = nreq + 1
  /\ notifications' = IF ok THEN MarkAllRead(notifications, u) ELSE notifications
  /\ LET rq == Begin("read_all", u)
     IN Commit(r,
          IF ok THEN Finish(rq, Response(200, ""))
          ELSE Finish(rq, Response(500, "Failed to mark all notifications as read")),
          ok)
  /\ UNCHANGED <<role, points, items, claims, clock, effects>>

\* ------------------------------------------------------------ user roles
\* The callers of the role route, an id that no user has, and the roles a
\* request may carry, one of them not a role.
RoleCallers == {"a1", "a2", "p"}
MissingUser == "u0"
RoleBodies == Roles \cup {"guest"}

\* A handler that lets an admin change their own role.
IsOwnRole_Never(id, u) == FALSE

\* id === req.user.id
IsOwnRole(id, u) == id = u

\* .from('users').update({ role }).eq('id', id)
UsersRoleUpdate(id, newRole) ==
  IF id \in Users THEN [role EXCEPT ![id] = newRole] ELSE role

\* PUT /admin/users/:id/role, taken as one step: requireAdmin on the
\* caller's stored role, the validation of the body, the self check and
\* the update, whose .single() fails on an id without a row.
UpdateUserRole(r, u, id, newRole, ok) ==
  /\ CanStart(r)
  /\ nreq' = nreq + 1
  /\ LET rq == [Begin("update_role", u) EXCEPT !.targetId = id, !.status = newRole]
         written == /\ RequireAdmin(u)
                    /\ newRole \in Roles
                    /\ ~IsOwnRole(id, u)
                    /\ ok
     IN /\ role' = IF written THEN UsersRoleUpdate(id, newRole) ELSE role
        /\ Commit(r,
             IF ~RequireAdmin(u)
               THEN Finish(rq, Response(403, "Admin access required"))
             ELSE IF newRole \notin Roles
               THEN Finish(rq, Response(400, "Valid role is required"))
             ELSE IF IsOwnRole(id, u)
               THEN Finish(rq, Response(400, "Cannot change your own role"))
             ELSE IF ~ok \/ id \notin Users
               THEN Finish(rq, Response(500, "Failed to update user role"))
             ELSE Finish(rq, Response(200, "")),
             ok \/ ~RequireAdmin(u) \/ newRole \notin Roles \/ IsOwnRole(id, u))
  /\ UNCHANGED <<points, items, claims, notifications, clock, effects>>

\* ---------------------------------------------------------- specification
Next ==
  \/ \E r \in Reqs, u \in Claimants, i \in ItemIds \cup {MissingItem}, ok \in BOOLEAN :
        SubmitFetchItem(r, u, i, ok)
  \/ \E r \in Reqs, ok \in BOOLEAN : SubmitCheckExisting(r, ok)
  \/ \E r \in Reqs, ok \in BOOLEAN : SubmitInsert(r, ok)
  \/ \E r \in Reqs, ok \in BOOLEAN : SubmitNotifyPoster(r, ok)
  \/ \E r \in Reqs, ok \in BOOLEAN : SubmitFetchAdmins(r, ok)
  \/ \E r \in Reqs, ok \in BOOLEAN : SubmitNotifyAdmins(r, ok)
  \/ \E r \in Reqs, u \in Reviewers, c \in (1..Len(claims)) \cup {MissingClaim},
        body \in DecideBodies, ok \in BOOLEAN :
        DecideFetchClaim(r, u, c, body, ok)
  \/ \E r \in Reqs, ok \in BOOLEAN : DecideUpdateClaim(r, ok)
  \/ \E r \in Reqs, ok \in BOOLEAN : DecideUpdateItem(r, ok)
  \/ \E r \in Reqs, ok \in BOOLEAN : DecideAwardPoints(r, ok)
  \/ \E r \in Reqs, ok \in BOOLEAN : DecideNotifyClaimant(r, ok)
  \/ \E r \in Reqs, ok \in BOOLEAN : DecideNotifyPoster(r, ok)
  \/ \E r \in Reqs, u \in Overriders, i \in ItemIds \cup {MissingItem},
        status \in ItemStatuses, ok \in BOOLEAN :
        AdminUpdateItemStatus(r, u, i, status, ok)
  \/ \E r \in Reqs, ok \in BOOLEAN : AdminNotifyArchived(r, ok)

Spec == Init /\ [][Next]_vars

\* The item routes and the claim reads, with the decisions on the claims
\* that exist and the admin's status override.
ItemsNext ==
  \/ \E r \in Reqs, u \in Overriders, c \in (1..Len(claims)) \cup {MissingClaim},
        body \in DecideBodies, ok \in BOOLEAN :
        DecideFetchClaim(r, u, c, body, ok)
  \/ \E r \in Reqs, ok \in BOOLEAN : DecideUpdateClaim(r, ok)
  \/ \E r \in Reqs, ok \in BOOLEAN : DecideUpdateItem(r, ok)
  \/ \E r \in Reqs, ok \in BOOLEAN : DecideAwardPoints(r, ok)
  \/ \E r \in Reqs, ok \in BOOLEAN : DecideNotifyClaimant(r, ok)
  \/ \E r \in Reqs, ok \in BOOLEAN : DecideNotifyPoster(r, ok)
  \/ \E r \in Reqs, u \in Overriders, i \in ItemIds,
        status \in ItemStatuses, ok \in BOOLEAN :
        AdminUpdateItemStatus(r, u, i, status, ok)
  \/ \E r \in Reqs, ok \in BOOLEAN : AdminNotifyArchived(r, ok)
  \/ \E r \in Reqs, u \in Claimants, i \in NewItemIds, dateFound \in BOOLEAN,
        ok \in BOOLEAN :
        CreateItemInsert(r, u, i, dateFound, ok)
  \/ \E r \in Reqs, ok \in BOOLEAN : CreateItemUpdateQr(r, ok)
  \/ \E r \in Reqs, ok \in BOOLEAN : CreateItemAwardPoints(r, ok)
  \/ \E r \in Reqs, u \in ItemCallers, i \in ItemIds,
        status \in UpdateStatuses, ok \in BOOLEAN :
        UpdateItemFetch(r, u, i, status, ok)
  \/ \E r \in Reqs, ok \in BOOLEAN : UpdateItemWrite(r, ok)
  \/ \E r \in Reqs, u \in ItemCallers, i \in ItemIds, ok \in BOOLEAN :
        DeleteItemFetch(r, u, i, ok)
  \/ \E r \in Reqs, ok \in BOOLEAN : DeleteItemWrite(r, ok)
  \/ \E r \in Reqs, u \in Overriders, i \in ItemIds, ok \in BOOLEAN :
        AdminDeleteFetch(r, u, i, ok)
  \/ \E r \in Reqs, ok \in BOOLEAN : AdminDeleteWrite(r, ok)
  \/ \E r \in Reqs, ok \in BOOLEAN : AdminDeleteNotify(r, ok)
  \/ \E r \in Reqs, u \in ItemCallers, statusFilter \in StatusFilters, ok \in BOOLEAN :
        GetClaims(r, u, statusFilter, ok)
  \/ \E r \in Reqs, u \in ItemCallers, c \in (1..Len(claims)) \cup {MissingClaim},
        ok \in BOOLEAN :
        GetClaim(r, u, c, ok)

\* The tables after the first request has been answered: either x's
\* POST /claims on the item succeeded, leaving a pending claim and its three
\* notifications, or the request was refused and left nothing.
InitItems ==
  /\ role = [a1 |-> "admin", a2 |-> "admin", p |-> "student", x |-> "student",
             y |-> "student"]
  /\ points = [u \in Users |-> 0]
  /\ items = [i \in ItemIds |-> [status |-> "active", poster_id |-> "p", claimed_by |-> Null]]
  /\ \E submitted \in BOOLEAN :
        IF submitted
          THEN /\ claims = <<NewClaimRow("i1", "x")>>
               /\ notifications =
                    SetToBag({Notification("p", "New Claim on Your Item", "item_claimed",
                                           "i1", 1)})
                    (+) SetToBag(AdminNotifications({"a1", "a2"}, "i1", 1))
               /\ effects = <<[itemUpdates |-> 0, awards |-> 0]>>
          ELSE /\ claims = <<>>
               /\ notifications = EmptyBag
               /\ effects = <<>>
  /\ clock = 1
  /\ req = [r \in Reqs |-> IdleReq]
  /\ last = IdleReq
  /\ nreq = 1
  /\ nfail = 0

\* The routes that follow a submission, from the first answered request on.
SpecItems == InitItems /\ [][ItemsNext]_vars

\* The tables after x and y have each submitted a claim on the item: two
\* pending claims and the three notifications of each.
InitRivals ==
  /\ role = [a1 |-> "admin", a2 |-> "admin", p |-> "student", x |-> "student",
             y |-> "student"]
  /\ points = [u \in Users |-> 0]
  /\ items = [i \in ItemIds |-> [status |-> "active", poster_id |-> "p", claimed_by |-> Null]]
  /\ claims = <<NewClaimRow("i1", "x"), NewClaimRow("i1", "y")>>
  /\ notifications =
       SetToBag({Notification("p", "New Claim on Your Item", "item_claimed", "i1", c) :
                   c \in {1, 2}})
       (+) SetToBag(UNION {AdminNotifications({"a1", "a2"}, "i1", c) : c \in {1, 2}})
  /\ effects = <<[itemUpdates |-> 0, awards |-> 0], [itemUpdates |-> 0, awards |-> 0]>>
  /\ clock = 1
  /\ req = [r \in Reqs |-> IdleReq]
  /\ last = IdleReq
  /\ nreq = 0
  /\ nfail = 0

\* The decisions on the two claims and the admin's status override.
RivalsNext ==
  \/ \E r \in Reqs, u \in Reviewers, c \in (1..Len(claims)) \cup {MissingClaim},
        body \in DecideBodies, ok \in BOOLEAN :
        DecideFetchClaim(r, u, c, body, ok)
  \/ \E r \in Reqs, ok \in BOOLEAN : DecideUpdateClaim(r, ok)
  \/ \E r \in Reqs, ok \in BOOLEAN : DecideUpdateItem(r, ok)
  \/ \E r \in Reqs, ok \in BOOLEAN : DecideAwardPoints(r, ok)
  \/ \E r \in Reqs, ok \in BOOLEAN : DecideNotifyClaimant(r, ok)
  \/ \E r \in Reqs, ok \in BOOLEAN : DecideNotifyPoster(r, ok)
  \/ \E r \in Reqs, u \in Overriders, i \in ItemIds, status \in ItemStatuses,
        ok \in BOOLEAN :
        AdminUpdateItemStatus(r, u, i, status, ok)
  \/ \E r \in Reqs, ok \in BOOLEAN : AdminNotifyArchived(r, ok)

\* Two claimants of one item: what the reviewers and the override do to them.
SpecRivals == InitRivals /\ [][RivalsNext]_vars

\* The mark-read routes and the decisions, which insert notifications.
NotificationsNext ==
  \/ \E r \in Reqs, u \in NotificationReaders,
        n \in BagToSet(notifications) \cup {MissingNotification}, ok \in BOOLEAN :
        MarkNotificationRead(r, u, n, ok)
  \/ \E r \in Reqs, u \in NotificationReaders, ok \in BOOLEAN :
        MarkAllNotificationsRead(r, u, ok)
  \/ \E r \in Reqs, u \in Overriders, c \in (1..Len(claims)) \cup {MissingClaim},
        body \in DecideBodies, ok \in BOOLEAN :
        DecideFetchClaim(r, u, c, body, ok)
  \/ \E r \in Reqs, ok \in BOOLEAN : DecideUpdateClaim(r, ok)
  \/ \E r \in Reqs, ok \in BOOLEAN : DecideUpdateItem(r, ok)
  \/ \E r \in Reqs, ok \in BOOLEAN : DecideAwardPoints(r, ok)
  \/ \E r \in Reqs, ok \in BOOLEAN : DecideNotifyClaimant(r, ok)
  \/ \E r \in Reqs, ok \in BOOLEAN : DecideNotifyPoster(r, ok)

\* The notifications of a submission and of its decision, and their readers.
SpecNotifications == InitItems /\ [][NotificationsNext]_vars

\* The role updates.
RolesNext ==
  \E r \in Reqs, u \in RoleCallers, id \in Users \cup {MissingUser},
     newRole \in RoleBodies, ok \in BOOLEAN :
     UpdateUserRole(r, u, id, newRole, ok)

\* Sequences of role updates, each one atomic, from two admins.
SpecRoles == Init /\ [][RolesNext]_vars

\* =============================================================== claims
\* The claims of claimant u on item i that are pending or approved.
LiveClaims(i, u) ==
  {c \in 1..Len(claims) :
     /\ claims[c].item_id = i
     /\ claims[c].claimant_id = u
     /\ claims[c].status \in {"pending", "approved"}}

\* C1: in every reachable state, also under interleaved submissions by the
\* same claimant on the same item, the number of pending or approved claims
\* of one claimant on one item is at most 1.
C1_AtMostOneLiveClaim ==
  \A i \in ItemIds, u \in Users : Cardinality(LiveClaims(i, u)) <= 1

\* Two submissions of the same claimant on the same item both passed the
\* duplicate check; one inserted its claim and the store refused the other.
C1_Witness ==
  /\ last.failed = {}
  /\ last.op = "submit"
  /\ last.resp.error = "Failed to create claim"
  /\ LiveClaims(last.itemId, last.user) # {}

\* C2: whenever the existing-claim lookup of a POST /claims is answered by
\* the store while the caller has a pending or approved claim on the item,
\* the request ends there with DuplicateClaim, carrying that claim's status.
C2_DuplicateRefused ==
  [][\A r \in Reqs :
       (/\ req[r].pc = "s_existing"
        /\ req'[r].pc # "s_existing"
        /\ nfail' = nfail
        /\ LiveClaims(req[r].itemId, req[r].user) # {})
       => (/\ ErrorKind(last'.resp) = "DuplicateClaim"
           /\ last'.user = req[r].user
           /\ last'.itemId = req[r].itemId
           /\ claims' = claims)]_vars

\* A claimant who holds an approved claim on a still active item is refused.
C2_Witness ==
  /\ ErrorKind(last.resp) = "DuplicateClaim"
  /\ last.resp.existingClaimStatus = "approved"
  /\ items[last.itemId].status = "active"
  /\ LiveClaims(last.itemId, last.user) # {}

\* Request r takes a step.
Steps(r) == req'[r] # req[r]

\* C3: once a claim is approved or rejected its row never changes again, no
\* later PUT /claims/:id/status on it gets past the pending guard, and a
\* later one that the store answers is refused with AlreadyReviewed.
C3_DecisionIsFinal ==
  [][\A c \in 1..Len(claims) :
       claims[c].status # "pending" =>
         /\ claims'[c] = claims[c]
         /\ \A r \in Reqs :
              ~(Free(r) /\ req'[r].op = "decide" /\ req'[r].claimId = c)
         /\ (/\ nreq' = nreq + 1
             /\ last'.op = "decide"
             /\ last'.claimId = c
             /\ last'.seq = nreq'
             /\ last'.failed = {})
            => ErrorKind(last'.resp) = "AlreadyReviewed"]_vars

\* C4: a decision that reaches its write after another decision has been
\* written to the same claim writes nothing and is answered AlreadyReviewed.
C4_SecondWriterRefused ==
  [][\A r \in Reqs :
       (/\ req[r].pc = "d_update"
        /\ Steps(r)
        /\ nfail' = nfail
        /\ claims[req[r].claimId].status # "pending")
       => (/\ claims' = claims
           /\ last'.seq = req[r].seq
           /\ ErrorKind(last'.resp) = "AlreadyReviewed")]_vars

\* The request answered last was a successful approval all of whose
\* data-store calls succeeded.
ApprovalCompleted ==
  /\ last.op = "decide"
  /\ last.status = "approved"
  /\ last.resp.status = 200
  /\ last.failed = {}

\* The item and the claimant's points as the approval answered last leaves them.
ApprovalEffectsVisible ==
  /\ items[last.claim.item_id].status = "claimed"
  /\ items[last.claim.item_id].claimed_by = claims[last.claimId].claimant_id
  /\ points[claims[last.claimId].claimant_id] =
       last.prePoints[claims[last.claimId].claimant_id] + ClaimAwardPoints

\* No step of another request fell between the arrival and the answer of the
\* request answered last.
RanAlone == last.solo /\ nreq = last.seq

\* C5 as stated: when an approval completes with every data-store call
\* succeeding, the item is claimed by the claimant and the claimant's points
\* are 20 above their value when the request began.
C5_EffectsAtCompletion == ApprovalCompleted => ApprovalEffectsVisible

\* What a completed approval guarantees in every case.
C5_Completion ==
  ApprovalCompleted =>
    /\ effects[last.claimId].itemUpdates >= 1
    /\ effects[last.claimId].awards >= 1
    /\ RanAlone => ApprovalEffectsVisible

\* C5 amended: an approval's item update writes status claimed and claimed_by
\* the claimant, its point award adds exactly 20 to the claimant's points and
\* to nobody else's, an approval that completes with every data-store call
\* succeeding has made both writes, and the item and the points show exactly
\* these effects at completion when no other request ran meanwhile.
C5_ApprovalEffects ==
  [][/\ \A r \in Reqs :
          (req[r].pc = "d_item" /\ Steps(r) /\ nfail' = nfail) =>
            LET c == req[r].claimId
                i == claims[c].item_id
            IN items' = [items EXCEPT ![i] =
                           [@ EXCEPT !.status = "claimed",
                                     !.claimed_by = claims[c].claimant_id]]
     /\ \A r \in Reqs :
          (req[r].pc = "d_points" /\ Steps(r) /\ nfail' = nfail) =>
            points' = [points EXCEPT ![claims[req[r].claimId].claimant_id] =
                                       @ + ClaimAwardPoints]
     /\ C5_Completion']_vars

\* An approval that ran alone completed with every call succeeding.
C5_Witness == ApprovalCompleted /\ RanAlone /\ ApprovalEffectsVisible

\* C6: a rejecting PUT /claims/:id/status changes neither items nor points,
\* and once all requests have been answered a rejected claim has caused no
\* item update and no point award.
C6_RejectionHasNoEffects ==
  [][/\ \A r \in Reqs :
          (req[r].op = "decide" /\ req[r].status = "rejected" /\ Steps(r)) =>
            (items' = items /\ points' = points)
     /\ (\A r \in Reqs : req'[r].pc = "idle") =>
          \A c \in 1..Len(claims') :
             claims'[c].status = "rejected" =>
               (effects'[c].itemUpdates = 0 /\ effects'[c].awards = 0)]_vars

\* C7: when the claimant's earlier claims on a still active item are all
\* rejected, the insert of a new claim, if the store is reachable, adds a
\* pending claim row and the request goes on to its notifications.
C7_ResubmissionAccepted ==
  [][\A r \in Reqs :
       (/\ req[r].pc = "s_insert"
        /\ Steps(r)
        /\ nfail' = nfail
        /\ req[r].itemId \in DOMAIN items
        /\ items[req[r].itemId].status = "active"
        /\ ClaimsOf(req[r].itemId, req[r].user) # {}
        /\ \A c \in ClaimsOf(req[r].itemId, req[r].user) :
              claims[c].status = "rejected")
       => (/\ Len(claims') = Len(claims) + 1
           /\ claims'[Len(claims')] = NewClaimRow(req[r].itemId, req[r].user)
           /\ req'[r].pc = "s_notify_poster")]_vars

\* The request answered last was a POST /claims by the poster of its item.
PosterSubmitted ==
  /\ last.op = "submit"
  /\ last.itemId \in DOMAIN items
  /\ last.user = items[last.itemId].poster_id

\* No claim row has the poster of its item as claimant.
NoSelfClaimRow ==
  \A c \in 1..Len(claims) :
     claims[c].item_id \in DOMAIN items =>
       claims[c].claimant_id # items[claims[c].item_id].poster_id

\* C8 as stated: a POST /claims by the item's poster whose item lookup is
\* answered fails with SelfClaim whatever the item's status, and no claim of
\* a poster on the own item exists.
C8_SelfClaimForEveryStatus ==
  /\ (PosterSubmitted /\ last.failed = {}) => ErrorKind(last.resp) = "SelfClaim"
  /\ NoSelfClaimRow

\* C8 amended: a POST /claims by the item's poster always fails and creates
\* no claim; when the item lookup is answered the error is SelfClaim for an
\* active item and InvalidState for a claimed or archived one.
C8_PosterNeverClaims ==
  /\ PosterSubmitted =>
       /\ ErrorKind(last.resp) # "Success"
       /\ last.failed = {} =>
            ErrorKind(last.resp) =
              IF items[last.itemId].status = "active" THEN "SelfClaim"
                                                      ELSE "InvalidState"
  /\ NoSelfClaimRow

\* The poster tried to claim the own item after it was archived.
C8_Witness ==
  /\ PosterSubmitted
  /\ last.failed = {}
  /\ items[last.itemId].status = "archived"
  /\ ErrorKind(last.resp) = "InvalidState"
  /\ claims = <<>>

\* The request answered last was a successful POST /claims.
SubmitSucceeded == last.op = "submit" /\ last.resp.status = 201

\* One notification for the poster of the item and one for every admin.
SubmitFanOut ==
  SetToBag({Notification(items[last.itemId].poster_id, "New Claim on Your Item",
                         "item_claimed", last.itemId, last.newClaim)})
  (+) SetToBag({Notification(a, "New Claim to Review", "claim_submitted",
                             last.itemId, last.newClaim) :
                  a \in {u \in Users : role[u] = "admin"}})

\* C9 as stated: a successful POST /claims has inserted exactly one
\* notification for the item's poster and one for each admin.
C9_FanOutOfEverySuccess == SubmitSucceeded => last.sent = SubmitFanOut

\* C9 amended: a successful POST /claims whose notification inserts and admin
\* query all succeeded has inserted exactly one notification for the item's
\* poster and one for each admin, 1 + N rows, and no other.
C9_FanOutWhenStored ==
  (SubmitSucceeded /\ last.failed = {}) =>
    /\ last.sent = SubmitFanOut
    /\ BagCardinality(last.sent) = 1 + Cardinality({u \in Users : role[u] = "admin"})
    /\ last.sent \sqsubseteq notifications

\* A claim was submitted and the poster and both admins were notified.
C9_Witness ==
  /\ SubmitSucceeded
  /\ last.failed = {}
  /\ BagCardinality(last.sent) = 3

\* The request answered last was a successful PUT /claims/:id/status.
DecideSucceeded == last.op = "decide" /\ last.resp.status = 200

\* The positions of the decision's notification inserts.
DecideNotifySteps == {"d_notify_claimant", "d_notify_poster"}

\* One notification for the claimant and, if approved, one for the poster.
DecideFanOut ==
  SetToBag({Notification(claims[last.claimId].claimant_id,
                         IF last.status = "approved" THEN "Claim Approved"
                                                     ELSE "Claim Rejected",
                         "claim_update", claims[last.claimId].item_id, last.claimId)})
  (+) (IF last.status = "approved"
         THEN SetToBag({Notification(items[claims[last.claimId].item_id].poster_id,
                                     "Item Claimed", "item_claimed",
                                     claims[last.claimId].item_id, last.claimId)})
         ELSE EmptyBag)

\* Every notification about a decision is about a claim that is no longer pending.
StatusWrittenBeforeNotification ==
  \A n \in BagToSet(notifications) :
     n.type = "claim_update" \/ n.title = "Item Claimed" =>
       claims[n.data.claimId].status # "pending"

\* C10 as stated: a successful decision has inserted exactly 1 notification
\* (claimant) when rejected and exactly 2 (claimant, poster) when approved,
\* and the claim's status was written before them.
C10_FanOutOfEveryDecision ==
  /\ DecideSucceeded => last.sent = DecideFanOut
  /\ StatusWrittenBeforeNotification

\* C10 amended: a successful decision whose notification inserts all
\* succeeded has inserted exactly 1 notification (claimant) when rejected and
\* exactly 2 (claimant, poster) when approved; the claim's status is written
\* before any of them.
C10_FanOutWhenStored ==
  /\ (DecideSucceeded /\ last.failed \cap DecideNotifySteps = {}) =>
       /\ last.sent = DecideFanOut
       /\ BagCardinality(last.sent) = IF last.status = "approved" THEN 2 ELSE 1
  /\ StatusWrittenBeforeNotification

\* An approval notified the claimant and the poster although its point
\* award failed.
C10_Witness ==
  /\ DecideSucceeded
  /\ last.status = "approved"
  /\ last.failed = {"d_points"}
  /\ BagCardinality(last.sent) = 2

\* The positions of the notification inserts of POST /claims and of
\* PUT /claims/:id/status.
NotifySteps == {"s_notify_poster", "s_notify_admins"} \cup DecideNotifySteps

\* The request answered last is a submission or a decision one of whose
\* notification inserts failed.
NotificationFailed ==
  /\ last.op \in {"submit", "decide"}
  /\ last.failed \cap NotifySteps # {}

\* The writes that preceded the notifications of the request answered last
\* are in the tables.
PrimaryWritesCommitted ==
  IF last.op = "submit"
    THEN /\ last.newClaim \in 1..Len(claims)
         /\ claims[last.newClaim].item_id = last.itemId
         /\ claims[last.newClaim].claimant_id = last.user
    ELSE /\ claims[last.claimId].status # "pending"
         /\ (last.status = "approved" /\ last.failed \cap {"d_item", "d_points"} = {}) =>
              /\ effects[last.claimId].itemUpdates >= 1
              /\ effects[last.claimId].awards >= 1

\* C11: a failing notification insert of POST /claims or of
\* PUT /claims/:id/status changes no claim, item or points, and the request
\* it belongs to still ends with its success response (201 or 200) with the
\* claim write, and on approval the item and points writes, committed.
C11_NotificationFailureSwallowed ==
  [][/\ \A r \in Reqs :
          (req[r].pc \in NotifySteps /\ Steps(r) /\ nfail' > nfail) =>
            /\ claims' = claims /\ items' = items /\ points' = points
            /\ req'[r].pc # "idle" \/ last'.resp.status \in {200, 201}
     /\ NotificationFailed' =>
          /\ last'.resp.status = IF last'.op = "submit" THEN 201 ELSE 200
          /\ PrimaryWritesCommitted']_vars

\* An approval answered 200 although the claimant's notification was lost;
\* the claim is approved, the item claimed and the points awarded.
C11_Witness ==
  /\ NotificationFailed
  /\ last.status = "approved"
  /\ last.failed = {"d_notify_claimant"}
  /\ last.resp.status = 200
  /\ claims[last.claimId].status = "approved"
  /\ items[claims[last.claimId].item_id].status = "claimed"
  /\ points[claims[last.claimId].claimant_id] >= ClaimAwardPoints

\* The request answered last was an approval whose point award, and no
\* other call, failed.
AwardFailed ==
  /\ last.op = "decide"
  /\ last.status = "approved"
  /\ last.failed = {"d_points"}

\* C12: a failing increment_user_points call of an approval leaves points,
\* claims and items as they are and the handler goes on to its
\* notifications; the request is answered 200 with the award never made
\* again, and when it ran alone the claim is approved and the item claimed by
\* the claimant while the claimant's points are what they were before.
C12_AwardFailureNotRolledBack ==
  [][/\ \A r \in Reqs :
          (req[r].pc = "d_points" /\ Steps(r) /\ nfail' > nfail) =>
            /\ points' = points /\ claims' = claims /\ items' = items
            /\ req'[r].pc = "d_notify_claimant"
     /\ AwardFailed' =>
          /\ last'.resp.status = 200
          /\ RanAlone' =>
               /\ claims'[last'.claimId].status = "approved"
               /\ items'[last'.claim.item_id].status = "claimed"
               /\ items'[last'.claim.item_id].claimed_by = last'.claim.claimant_id
               /\ points' = last'.prePoints
               /\ effects'[last'.claimId].awards = 0]_vars

\* The approved claim whose item is claimed and whose claimant got no points.
C12_Witness ==
  /\ AwardFailed
  /\ last.resp.status = 200
  /\ claims[last.claimId].status = "approved"
  /\ items[last.claim.item_id].status = "claimed"
  /\ items[last.claim.item_id].claimed_by = last.claim.claimant_id
  /\ points[last.claim.claimant_id] = last.prePoints[last.claim.claimant_id]
  /\ effects[last.claimId].awards = 0

\* The request that arrived last, as the step that accepted it left it.
Arrived ==
  IF last.seq = nreq THEN last
  ELSE CHOOSE rq \in {req[r] : r \in Reqs} : rq.seq = nreq

\* No table is written.
NothingWritten ==
  /\ claims' = claims /\ notifications' = notifications
  /\ items' = items /\ points' = points

\* C13: a POST /claims whose item lookup is answered ends there with NotFound
\* when the item does not exist and with InvalidState when the item exists,
\* is claimed or archived and is not the caller's own; a POST /claims that
\* ends at its item lookup has written nothing.
C13_UnclaimableItemRefused ==
  [][(nreq' = nreq + 1 /\ Arrived'.op = "submit") =>
       LET a == Arrived'
           i == a.itemId
       IN /\ (nfail' = nfail /\ i \notin DOMAIN items) =>
               (a.pc = "done" /\ ErrorKind(a.resp) = "NotFound")
          /\ (/\ nfail' = nfail
              /\ i \in DOMAIN items
              /\ items[i].status \in {"claimed", "archived"}
              /\ items[i].poster_id # a.user) =>
               (a.pc = "done" /\ ErrorKind(a.resp) = "InvalidState")
          /\ a.pc = "done" => NothingWritten]_vars

\* Somebody else's claimed item was refused, with no claim on record.
C13_Witness ==
  /\ last.op = "submit"
  /\ last.failed = {}
  /\ last.itemId \in DOMAIN items
  /\ items[last.itemId].status = "claimed"
  /\ items[last.itemId].poster_id # last.user
  /\ ErrorKind(last.resp) = "InvalidState"
  /\ claims = <<>>

\* C14: every DuplicateClaim response of POST /claims carries a status that
\* is pending or approved and is the status that the caller's claim on the
\* item has when the response is sent.
C14_DuplicateCarriesLiveStatus ==
  (last.op = "submit" /\ ErrorKind(last.resp) = "DuplicateClaim") =>
    /\ last.resp.existingClaimStatus \in {"pending", "approved"}
    /\ \E c \in ClaimsOf(last.itemId, last.user) :
          claims[c].status = last.resp.existingClaimStatus

\* A second submission was refused because the first is still pending.
C14_Witness ==
  /\ last.op = "submit"
  /\ ErrorKind(last.resp) = "DuplicateClaim"
  /\ last.resp.existingClaimStatus = "pending"
  /\ \E c \in ClaimsOf(last.itemId, last.user) : claims[c].status = "pending"

\* C15: AlreadyReviewed and NotFound are answers of the claim lookup, the
\* first store call of PUT /claims/:id/status, only: an answered lookup of a
\* claim that does not exist ends the request with NotFound, one of a claim
\* that is approved or rejected ends it with AlreadyReviewed, and a request
\* that ends at its lookup has written no claim, item, points or notification.
C15_RefusedDecisionWritesNothing ==
  [][/\ (nreq' = nreq + 1 /\ Arrived'.op = "decide") =>
          LET a == Arrived'
              c == a.claimId
          IN /\ (nfail' = nfail /\ c \notin 1..Len(claims)) =>
                  (a.pc = "done" /\ ErrorKind(a.resp) = "NotFound")
             /\ (nfail' = nfail /\ c \in 1..Len(claims) /\ claims[c].status # "pending") =>
                  (a.pc = "done" /\ ErrorKind(a.resp) = "AlreadyReviewed")
             /\ a.pc = "done" => NothingWritten
     /\ (last'.op = "decide" /\ ErrorKind(last'.resp) \in {"AlreadyReviewed", "NotFound"}) =>
          (nreq' = nreq + 1 /\ last'.seq = nreq' /\ NothingWritten)]_vars

\* A rejected claim was to be approved afterwards; the request was refused
\* and the claim is still rejected, its item still unclaimed.
C15_Witness ==
  /\ last.op = "decide"
  /\ last.status = "approved"
  /\ ErrorKind(last.resp) = "AlreadyReviewed"
  /\ claims[last.claimId].status = "rejected"
  /\ items[claims[last.claimId].item_id].status = "active"
  /\ points = ZeroPoints

\* C16: no step lowers the stored points of any user, whatever the
\* interleaving of item creations and claim approvals.
C16_PointsNeverDecrease ==
  [][\A u \in Users : points'[u] >= points[u]]_vars

\* The request that takes the step: the one that arrives with it, or the
\* one in flight that moves, as it was before the step.
Actor ==
  IF nreq' # nreq THEN Arrived'
  ELSE req[CHOOSE r \in Reqs : Steps(r)]

\* C17: a step of a PUT /items/:id whose caller is not an admin leaves every
\* item as it is, also when the caller is the item's poster and sends a
\* status; whenever the status of an item changes, the step is the item
\* update of an approval or a step of an admin's PUT /items/:id or
\* PUT /admin/items/:id/status.
C17_StatusChangedByAdminOrApproval ==
  [][/\ (Actor.op = "update_item" /\ role[Actor.user] # "admin") => items' = items
     /\ \A i \in DOMAIN items \cap DOMAIN items' :
          items'[i].status # items[i].status =>
            \/ /\ Actor.op = "decide"
               /\ Actor.pc = "d_item"
               /\ Actor.status = "approved"
               /\ items'[i].status = "claimed"
            \/ /\ Actor.op \in {"update_item", "item_status"}
               /\ role[Actor.user] = "admin"
               /\ items'[i].status = Actor.status]_vars

\* The poster's update with status archived was accepted and the item is
\* still active.
C17_Witness ==
  /\ last.op = "update_item"
  /\ last.user = "p"
  /\ last.status = "archived"
  /\ last.resp.status = 200
  /\ items[last.itemId].poster_id = "p"
  /\ items[last.itemId].status = "active"

\* C18: when the delete of a DELETE /items/:id by a caller who is not an
\* admin removes an item, the caller is the item's poster and the item is
\* not claimed; the delete of a claimed item by its poster is answered with
\* an error and the item remains.
C18_PosterDeletesUnclaimedOnly ==
  [][(/\ Actor.op = "delete_item"
      /\ Actor.pc = "x_write"
      /\ role[Actor.user] # "admin"
      /\ Actor.itemId \in DOMAIN items) =>
       LET i == Actor.itemId
       IN /\ i \notin DOMAIN items' =>
               (items[i].poster_id = Actor.user /\ items[i].status # "claimed")
          /\ items[i].status = "claimed" =>
               (i \in DOMAIN items' /\ last'.resp.status # 200)]_vars

\* The request answered last was a claim read by a caller who is no admin.
ReadByNonAdmin ==
  /\ last.op \in {"get_claims", "get_claim"}
  /\ role[last.user] # "admin"

\* C19: every claim that GET /claims or GET /claims/:id returns to a caller
\* who is not an admin has the caller as claimant, and an answered
\* GET /claims/:id on a claim of another user is refused with
\* PermissionDenied, whatever the claim's status and also for the poster of
\* the claimed item.
C19_OwnClaimsOnly ==
  ReadByNonAdmin =>
    /\ \A c \in last.rows : claims[c].claimant_id = last.user
    /\ (/\ last.op = "get_claim"
        /\ last.failed = {}
        /\ last.claimId \in 1..Len(claims)
        /\ claims[last.claimId].claimant_id # last.user) =>
         (ErrorKind(last.resp) = "PermissionDenied" /\ last.rows = {})

\* The poster asked for the approved claim on the own item and was refused.
C19_Witness ==
  /\ ReadByNonAdmin
  /\ last.op = "get_claim"
  /\ last.failed = {}
  /\ last.claimId \in 1..Len(claims)
  /\ claims[last.claimId].status = "approved"
  /\ items[claims[last.claimId].item_id].poster_id = last.user
  /\ ErrorKind(last.resp) = "PermissionDenied"

\* The request answered last was an admin's successful change of an item,
\* a status change, an update or a delete through either delete route, all
\* of whose data-store calls succeeded.
AdminChangedItem ==
  /\ last.op \in {"item_status", "update_item", "delete_item", "admin_delete"}
  /\ role[last.user] = "admin"
  /\ last.resp.status = 200
  /\ last.failed = {}

\* The change archived or deleted the item.
ArchivedOrDeleted ==
  \/ last.op \in {"delete_item", "admin_delete"}
  \/ last.op \in {"item_status", "update_item"} /\ last.status = "archived"

\* C20: an admin's successful archive or deletion of an item, through any
\* route and with every data-store call succeeding, has inserted exactly one
\* notification, addressed to the item's poster; an admin's status change to
\* active or claimed has inserted none.
C20_AdminArchiveOrDeleteNotifies ==
  AdminChangedItem =>
    IF ArchivedOrDeleted
      THEN /\ BagCardinality(last.sent) = 1
           /\ \A n \in BagToSet(last.sent) : n.user_id = last.item.poster_id
      ELSE last.sent = EmptyBag

\* The rows that the step adds to the claims table.
InsertedClaims == {c \in 1..Len(claims') : c > Len(claims)}

\* C21: every step that inserts a claim row finds the claimed item active
\* at the moment of the insert, whatever was interleaved between the
\* submission's status check and its insert.
C21_InsertOnlyForActiveItem ==
  [][\A c \in InsertedClaims : items[claims'[c].item_id].status = "active"]_vars

\* The requests whose item update of an approval (step 4a) is the step taken.
ItemUpdateSteps == {r \in Reqs : req[r].pc = "d_item" /\ Steps(r)}

\* C22: the item update of an approval writes to the item only when the
\* item is active: an item that was archived or claimed in the meantime
\* keeps its status and its claimed_by.
C22_ClaimedOnlyFromActive ==
  [][\A r \in ItemUpdateSteps :
       items[req[r].claim.item_id].status # "active" => items' = items]_vars

\* C23: a PUT /claims/:id/status whose item update (step 4a) failed at the
\* data store is answered with InternalError.
C23_ItemUpdateFailureSurfaced ==
  (last.op = "decide" /\ "d_item" \in last.failed)
    => ErrorKind(last.resp) = "InternalError"

\* The approved claims on item i.
ApprovedClaims(i) ==
  {c \in 1..Len(claims) : claims[c].item_id = i /\ claims[c].status = "approved"}

\* C24: in every reachable state an item has at most one approved claim.
C24_AtMostOneApprovedClaim ==
  \A i \in ItemIds : Cardinality(ApprovedClaims(i)) <= 1

\* C25: in every reachable state an item whose claimed_by is a user has an
\* approved claim of that user on it.
C25_ClaimedByHasApprovedClaim ==
  \A i \in DOMAIN items :
    items[i].claimed_by # Null =>
      \E c \in ApprovedClaims(i) : claims[c].claimant_id = items[i].claimed_by

\* The row is claimed exactly if it names a claimant.
StatusMatchesClaimedBy(itemRow) ==
  (itemRow.status = "claimed") <=> (itemRow.claimed_by # Null)

\* C26 as stated: in every reachable state an item has status claimed if
\* and only if its claimed_by is set, whatever approvals, PUT
\* /admin/items/:id/status and an admin's PUT /items/:id have done.
C26_ClaimedIffClaimedBy ==
  \A i \in DOMAIN items : StatusMatchesClaimedBy(items[i])

\* C26: a created item is active without claimed_by; claimed_by is written
\* only by the item update of an approval, together with status claimed; an
\* admin's status write changes the status alone; and only an admin's status
\* write takes an item from claimed-iff-claimed_by to a state without it.
C26_OnlyAdminStatusWriteBreaks ==
  [][/\ \A i \in DOMAIN items' \ DOMAIN items : StatusMatchesClaimedBy(items'[i])
     /\ \A i \in DOMAIN items \cap DOMAIN items' :
          /\ items'[i].claimed_by # items[i].claimed_by =>
                /\ Actor.op = "decide"
                /\ Actor.pc = "d_item"
                /\ items'[i].status = "claimed"
                /\ items'[i].claimed_by = Actor.claim.claimant_id
          /\ (items'[i] # items[i] /\ Actor.op \in {"update_item", "item_status"}) =>
                /\ role[Actor.user] = "admin"
                /\ items'[i] = [items[i] EXCEPT !.status = Actor.status]
          /\ (StatusMatchesClaimedBy(items[i]) /\ ~StatusMatchesClaimedBy(items'[i])) =>
                Actor.op \in {"update_item", "item_status"}]_vars

\* An approval has claimed the item for x and the admin has then reset the
\* item to active: claimed_by still names x.
C26_Witness ==
  /\ last.op \in {"update_item", "item_status"}
  /\ last.resp.status = 200
  /\ last.status = "active"
  /\ last.itemId \in DOMAIN items
  /\ items[last.itemId].status = "active"
  /\ items[last.itemId].claimed_by = "x"
  /\ \E c \in ApprovedClaims(last.itemId) : claims[c].claimant_id = "x"

\* C27: over its lifetime a claim causes at most one point award, also when
\* two approvals of the same pending claim interleave.
C27_AtMostOneAward ==
  \A c \in 1..Len(claims) : effects[c].awards <= 1

\* The row carries a reviewer and a review time.
Reviewed(row) == row.reviewed_by # Null /\ row.reviewed_at # NullTime

\* The row carries neither.
Unreviewed(row) == row.reviewed_by = Null /\ row.reviewed_at = NullTime

\* C28: after every step a claim is reviewed exactly if its status is
\* approved or rejected and is unreviewed otherwise; an inserted claim is
\* pending without reviewer, review time and admin notes; and a step that
\* changes a claim's status takes it from pending to approved or rejected.
C28_ReviewFieldsAndTransitions ==
  [][/\ \A c \in 1..Len(claims') :
          IF claims'[c].status \in {"approved", "rejected"}
            THEN Reviewed(claims'[c]) ELSE Unreviewed(claims'[c])
     /\ \A c \in InsertedClaims :
          /\ claims'[c].status = "pending"
          /\ Unreviewed(claims'[c])
          /\ claims'[c].admin_notes = Null
     /\ \A c \in 1..Len(claims) :
          claims'[c].status # claims[c].status =>
            /\ claims[c].status = "pending"
            /\ claims'[c].status \in {"approved", "rejected"}]_vars

\* The row with the other read state.
Flip(row) == [row EXCEPT !.is_read = ~@]

\* The notification rows before or after the step.
NotificationRows == BagToSet(notifications) \cup BagToSet(notifications')

\* C29: no step takes a read notification back to unread, and a step of a
\* mark-read request (single or read-all) of user U adds and removes no
\* row, changes no field other than is_read, leaves every notification
\* addressed to another user as it is and writes no other table.
C29_MarkReadFrame ==
  [][/\ \A row \in NotificationRows :
          row.is_read => CopiesIn(row, notifications') >= CopiesIn(row, notifications)
     /\ Actor.op \in {"mark_read", "read_all"} =>
          /\ \A row \in NotificationRows :
                /\ CopiesIn(row, notifications') + CopiesIn(Flip(row), notifications')
                     = CopiesIn(row, notifications) + CopiesIn(Flip(row), notifications)
                /\ row.user_id # Actor.user =>
                     CopiesIn(row, notifications') = CopiesIn(row, notifications)
          /\ UNCHANGED <<role, points, items, claims>>]_vars

\* p's read-all was answered: a notification of p is read while the
\* notifications of the admins are unread.
C29_Witness ==
  /\ last.op = "read_all"
  /\ last.user = "p"
  /\ last.resp.status = 200
  /\ \E row \in BagToSet(notifications) : row.user_id = "p" /\ row.is_read
  /\ \E row \in BagToSet(notifications) : row.user_id = "a1" /\ ~row.is_read
  /\ \A row \in BagToSet(notifications) : row.user_id = "p" => row.is_read

\* The users whose stored role is admin.
Admins == {u \in Users : role[u] = "admin"}

\* C30: with every PUT /admin/users/:id/role taken as one atomic step and
\* accepted only from a caller whose stored role is admin, an admin exists
\* after every step, and a request whose target is its caller is refused
\* and leaves every role as it is.
C30_AdminRemains ==
  [][/\ Admins' # {}
     /\ (Actor.op = "update_role" /\ Actor.targetId = Actor.user) =>
          /\ role' = role
          /\ last'.resp.status \in {400, 403}]_vars

\* The only admin left asked to give up the role and was refused.
C30_Witness ==
  /\ last.op = "update_role"
  /\ last.targetId = last.user
  /\ last.status = "student"
  /\ last.resp = Response(400, "Cannot change your own role")
  /\ Admins = {last.user}
====
